---- MODULE Spec2Model ----
(***************************************************************************)
(* coveo-stew CI orchestration: CIMatrix (batch generation), Task,         *)
(* BaseCheck.launch, CIOrchestrator (sequential / parallel execution on    *)
(* the asyncio event loop), CheckStatus.get_highest_severity and the       *)
(* KeyboardInterrupt handling of stew_ci.                                  *)
(*                                                                         *)
(* Six specifications share the variables:                                 *)
(*   Spec          a full run of stew_ci / CIOrchestrator.orchestrate      *)
(*   SpecMatrix    a consumer iterating CIMatrix.generate_task_batches     *)
(*   SpecSeverity  CheckStatus.get_highest_severity on a list of statuses  *)
(*   SpecTask      one Task driven through starts_now / ends_now           *)
(*   SpecLaunch    BaseCheck.launch of a CLI check on one process outcome  *)
(*   SpecFilter    stew_ci._filter_checks on include / skip lists          *)
(***************************************************************************)
EXTENDS Integers, Sequences, FiniteSets, TLC

\* ---------------------------------------------------------------- bounds
MaxChecks == 2
MaxEnvs == 2
MaxBatch == 2
MaxLen == 3
MaxTime == 4
MaxExit == 2
MaxCalls == 2
MaxFilter == 2

\* ------------------------------------------------------------- constants
\* CIMatrixWorkflowOptions (IntFlag)
NONE == 0
CHECK == 1
AUTOFIX == 2
SEQUENTIAL == 4
AllFlags == CHECK + AUTOFIX + SEQUENTIAL

\* Python's None in a numeric field (timestamps, environment, duration)
None == -1

\* CheckStatus members
CheckStatus == {"NotRan", "Success", "CheckFailed", "Error", "Cancelled"}

SeverityOrderFailedFirst == <<"CheckFailed", "Error", "Cancelled", "Success">>

\* the order in which get_highest_severity probes the list
SeverityOrder == <<"Error", "CheckFailed", "Cancelled", "Success">>

\* names of the configured checks and tokens of the environments
CheckNames == <<"black", "mypy", "pytest", "stew", "custom">>
EnvToken(i) == 300 + i

\* what the awaited check function of a launch may do: return a status or raise
LaunchOutcomes == {"Success", "CheckFailed", "raise"}

VARIABLES
    checks,             \* CIMatrix.checks / CIOrchestrator.checks
    environments,       \* CIMatrix.environments
    workflow_options,   \* CIMatrixWorkflowOptions bitset
    raise_exceptions,   \* CIOrchestrator.raise_exceptions
    matrix,             \* "new" | "ok" | "ValueError": outcome of CIMatrix construction
    gen,                \* the generate_task_batches generator: [pc, i]
    yielded,            \* batches yielded so far, each a sequence of Task ids
    calls,              \* batches yielded by the earlier calls of generate_task_batches
    tasks,              \* the Task objects created so far (id = position)
    check_results,      \* BaseCheck._results per check: sequence of result ids
    objs,               \* the CheckResults objects created so far (id = position)
    results,            \* CIOrchestrator.results: sequence of result ids
    in_progress,        \* CIOrchestrator._in_progress: sequence of Task ids
    completed,          \* CIOrchestrator._completed: sequence of Task ids
    atask,              \* asyncio task wrapping _run_task_without_output, per Task id
    pending,            \* the pending set of the asyncio.wait loop
    done,               \* the done set being processed by the wait loop
    seq_i,              \* position of the sequential loop inside the batch
    updater,            \* status updater asyncio task: "none" | "running" | "cancelled"
    pc,                 \* position of the main coroutine / stew_ci
    exc,                \* exception that left orchestrate(), "None" if none
    ret,                \* status returned by orchestrate() / stew_ci, "None" if none
    clock,              \* time.time()
    statuses,           \* argument of get_highest_severity
    highest,            \* its return value, "None" before the call
    check_failed_exit_codes,   \* of the launched BaseCheckCLI
    process,            \* how the command of the launched check ended
    include_checks,     \* _filter_checks: names to include (empty: no include filter)
    skip_checks,        \* _filter_checks: names to skip
    filtered            \* _filter_checks: the checks it yielded

vars == <<checks, environments, workflow_options, raise_exceptions, matrix, gen,
          yielded, tasks, check_results, objs, results, in_progress, completed,
          atask, pending, done, seq_i, updater, pc, exc, ret, clock, statuses,
          highest, check_failed_exit_codes, process, calls, include_checks,
          skip_checks, filtered>>

configVars == <<checks, environments, workflow_options, raise_exceptions>>
runVars == <<check_results, objs, results, in_progress, completed, atask, pending,
             done, seq_i, updater, pc, exc, ret, clock>>
sevVars == <<statuses, highest>>
cliVars == <<check_failed_exit_codes, process>>
filterVars == <<include_checks, skip_checks, filtered>>

\* ------------------------------------------------------------- helpers
Range(s) == {s[i] : i \in 1..Len(s)}

RECURSIVE Flatten(_)
Flatten(ss) == IF ss = <<>> THEN <<>> ELSE Head(ss) \o Flatten(Tail(ss))

\* IntFlag test: bool(options & flag), flag a power of two
HasFlag(options, flag) == (options \div flag) % 2 = 1

\* -------------------------------------------------- CheckStatus (status.py)
RECURSIVE FirstPresent(_, _)
FirstPresent(order, list) ==
    IF order = <<>> THEN "NotRan"
    ELSE IF Head(order) \in Range(list) THEN Head(order)
    ELSE FirstPresent(Tail(order), list)

get_highest_severity(list) ==
    IF list = <<>> THEN "NotRan" ELSE FirstPresent(SeverityOrder, list)

\* ------------------------------------------------------------ Task (task.py)
Task(check, environment, enable_autofix, purpose) ==
    [check |-> check, environment |-> environment, enable_autofix |-> enable_autofix,
     purpose |-> purpose, started_at |-> None, ended_at |-> None]

\* truthiness of an Optional[float]
Truthy(x) == x # None /\ x # 0

is_in_progress(t) == Truthy(t.started_at) /\ ~Truthy(t.ended_at)

is_complete(t) == t.ended_at # None

duration_until_now(t, now) ==
    IF ~Truthy(t.started_at) THEN 0 ELSE now - t.started_at

duration(t, now) ==
    IF ~Truthy(t.started_at) THEN 0
    ELSE (IF Truthy(t.ended_at) THEN t.ended_at ELSE now) - t.started_at

\* starts_now / ends_now: the task afterwards and whether RuntimeError was raised
starts_now(t, now) ==
    IF is_in_progress(t) \/ is_complete(t)
    THEN [task |-> t, raised |-> TRUE]
    ELSE [task |-> [t EXCEPT !.started_at = now], raised |-> FALSE]

ends_now_unguarded(t, now) ==
    [task |-> [t EXCEPT !.ended_at = now], raised |-> FALSE]

ends_now(t, now) ==
    IF ~is_in_progress(t) THEN [task |-> t, raised |-> TRUE]
    ELSE IF is_complete(t) THEN [task |-> t, raised |-> TRUE]
    ELSE [task |-> [t EXCEPT !.ended_at = now], raised |-> FALSE]

\* Task.name and the task_name of _run_task_without_output: the check's name,
\* followed by " (<purpose>)" unless the purpose is "check"
TaskName(check_name, purpose) ==
    [check |-> check_name, suffix |-> IF purpose # "check" THEN purpose ELSE ""]

\* ------------------------------------------------------- CIMatrix (matrix.py)
\* __post_init__: environments are tested first, then checks
MatrixPostInitEnvsOnly(envs, chks) ==
    IF envs = <<>> THEN "ValueError" ELSE "ok"

MatrixPostInit(envs, chks) ==
    IF envs = <<>> THEN "ValueError"
    ELSE IF chks = <<>> THEN "ValueError"
    ELSE "ok"

\* _create_autofix_tasks resumed after check position i: position of the next
\* check that supports autofix, 0 when the generator expression is exhausted
NextAutofixAnyCheck(chks, i) == IF i < Len(chks) THEN i + 1 ELSE 0

NextAutofix(chks, i) ==
    LET later == {j \in (i + 1)..Len(chks) : chks[j].supports_auto_fix}
    IN IF later = {} THEN 0 ELSE CHOOSE j \in later : \A k \in later : j <= k

AutofixTaskLastEnv(envs, j) == Task(j, envs[Len(envs)], TRUE, "autofix")

AutofixTask(envs, j) == Task(j, envs[1], TRUE, "autofix")

_create_check_tasks_first_env(envs, chks) ==
    [k \in 1..Len(chks) |-> Task(k, envs[1], FALSE, "check")]

\* _create_check_tasks: for env in environments, for check in checks
_create_check_tasks(envs, chks) ==
    [k \in 1..(Len(envs) * Len(chks)) |->
        Task(((k - 1) % Len(chks)) + 1, envs[((k - 1) \div Len(chks)) + 1],
             FALSE, "check")]

\* generate_task_batches: the test that makes the generator raise ValueError
\* ("At least one workflow flag must be set")
NoWorkflowFlagNever(options) == FALSE

NoWorkflowFlag(options) == options = NONE

RECURSIVE GenNextCheckFirst(_, _, _, _)
GenNextCheckFirst(g, envs, chks, options) ==
    CASE g.pc = "start" ->
            IF options = NONE
            THEN [gen |-> [pc |-> "raised", i |-> 0], kind |-> "raise", batch |-> <<>>]
            ELSE IF HasFlag(options, CHECK)
            THEN [gen |-> [pc |-> "checked", i |-> 0], kind |-> "yield",
                  batch |-> _create_check_tasks(envs, chks)]
            ELSE GenNextCheckFirst([pc |-> "checked", i |-> 0], envs, chks, options)
      [] g.pc = "checked" ->
            IF HasFlag(options, AUTOFIX)
            THEN GenNextCheckFirst([pc |-> "autofix", i |-> 0], envs, chks, options)
            ELSE [gen |-> [pc |-> "done", i |-> 0], kind |-> "stop", batch |-> <<>>]
      [] g.pc = "autofix" ->
            LET j == NextAutofix(chks, g.i)
            IN IF j # 0
               THEN [gen |-> [pc |-> "autofix", i |-> j], kind |-> "yield",
                     batch |-> <<AutofixTask(envs, j)>>]
               ELSE [gen |-> [pc |-> "done", i |-> 0], kind |-> "stop", batch |-> <<>>]
      [] OTHER ->
            [gen |-> [pc |-> IF g.pc = "raised" THEN "raised" ELSE "done", i |-> 0],
             kind |-> "stop", batch |-> <<>>]

\* one next() on generate_task_batches, from generator state g = [pc, i]:
\* the new generator state, what happened ("yield" | "stop" | "raise") and
\* the Task objects of the yielded batch
RECURSIVE GenNext(_, _, _, _)
GenNext(g, envs, chks, options) ==
    CASE g.pc = "start" ->
            IF NoWorkflowFlag(options)
            THEN [gen |-> [pc |-> "raised", i |-> 0], kind |-> "raise", batch |-> <<>>]
            ELSE IF HasFlag(options, AUTOFIX)
            THEN GenNext([pc |-> "autofix", i |-> 0], envs, chks, options)
            ELSE GenNext([pc |-> "check", i |-> 0], envs, chks, options)
      [] g.pc = "autofix" ->
            LET j == NextAutofix(chks, g.i)
            IN IF j # 0
               THEN [gen |-> [pc |-> "autofix", i |-> j], kind |-> "yield",
                     batch |-> <<AutofixTask(envs, j)>>]
               ELSE GenNext([pc |-> "check", i |-> 0], envs, chks, options)
      [] g.pc = "check" ->
            IF HasFlag(options, CHECK)
            THEN [gen |-> [pc |-> "checked", i |-> 0], kind |-> "yield",
                  batch |-> _create_check_tasks(envs, chks)]
            ELSE [gen |-> [pc |-> "done", i |-> 0], kind |-> "stop", batch |-> <<>>]
      [] OTHER ->
            \* "checked": falls off the end; "done" / "raised": a finished generator
            [gen |-> [pc |-> IF g.pc = "raised" THEN "raised" ELSE "done", i |-> 0],
             kind |-> "stop", batch |-> <<>>]

\* ids given to the Task objects of a freshly yielded batch
NewIdsReused(batch) == [k \in 1..Len(batch) |-> k]

NewIds(batch) == [k \in 1..Len(batch) |-> Len(tasks) + k]

\* ---------------------------------------------------------- configurations
ChecksOfLen(n) ==
    {[i \in 1..n |-> [name |-> CheckNames[i], supports_auto_fix |-> f[i]]] :
        f \in [1..n -> BOOLEAN]}

EnvsOfLen(n) == [i \in 1..n |-> EnvToken(i)]

IdleRun ==
    /\ check_results = <<>>
    /\ objs = <<>>
    /\ results = <<>>
    /\ in_progress = <<>>
    /\ completed = <<>>
    /\ atask = <<>>
    /\ pending = {}
    /\ done = {}
    /\ seq_i = 0
    /\ updater = "none"
    /\ pc = "idle"
    /\ exc = "None"
    /\ ret = "None"
    /\ clock = 1

NoProcess == [kind |-> "none", returncode |-> 0]

IdleCli ==
    /\ check_failed_exit_codes = {}
    /\ process = NoProcess

IdleFilter ==
    /\ include_checks = <<>>
    /\ skip_checks = <<>>
    /\ filtered = <<>>

IdleSeverity ==
    /\ statuses = <<>>
    /\ highest = "None"

\* ============================================================ SpecMatrix
\* A consumer builds a CIMatrix and exhausts generate_task_batches, as
\* CIMatrixTestCase.get_batches does.
MInit ==
    /\ \E n \in 0..MaxChecks : checks \in ChecksOfLen(n)
    /\ \E n \in 0..MaxEnvs : environments = EnvsOfLen(n)
    /\ workflow_options \in 0..AllFlags
    /\ raise_exceptions = FALSE
    /\ matrix = "new"
    /\ gen = [pc |-> "start", i |-> 0]
    /\ yielded = <<>>
    /\ calls = <<>>
    /\ tasks = <<>>
    /\ IdleRun
    /\ IdleCli
    /\ IdleSeverity
    /\ IdleFilter

\* CIMatrix(environments=..., checks=...)
MatrixConstruct ==
    /\ matrix = "new"
    /\ matrix' = MatrixPostInit(environments, checks)
    /\ UNCHANGED <<configVars, gen, yielded, tasks, runVars,
                   sevVars, cliVars, calls, filterVars>>

\* next() on the generator that yields a batch
MatrixYield ==
    /\ matrix = "ok"
    /\ gen.pc \notin {"done", "raised"}
    /\ LET r == GenNext(gen, environments, checks, workflow_options)
       IN /\ r.kind = "yield"
          /\ gen' = r.gen
          /\ yielded' = Append(yielded, NewIds(r.batch))
          /\ tasks' = tasks \o r.batch
    /\ UNCHANGED <<configVars, matrix, runVars,
                   sevVars, cliVars, calls, filterVars>>

\* next() on the generator that ends the iteration (StopIteration)
MatrixStop ==
    /\ matrix = "ok"
    /\ gen.pc \notin {"done", "raised"}
    /\ LET r == GenNext(gen, environments, checks, workflow_options)
       IN /\ r.kind = "stop"
          /\ gen' = r.gen
    /\ UNCHANGED <<configVars, matrix, yielded, tasks, runVars,
                   sevVars, cliVars, calls, filterVars>>

\* next() on the generator that raises ValueError
MatrixRaise ==
    /\ matrix = "ok"
    /\ gen.pc \notin {"done", "raised"}
    /\ LET r == GenNext(gen, environments, checks, workflow_options)
       IN /\ r.kind = "raise"
          /\ gen' = r.gen
    /\ UNCHANGED <<configVars, matrix, yielded, tasks, runVars,
                   sevVars, cliVars, calls, filterVars>>

\* the caller of the exhausted generator runs the tasks it was given: every
\* task of the yielded batches that has not started yet starts
MatrixRunTasks ==
    /\ matrix = "ok"
    /\ gen.pc = "done"
    /\ \E b \in 1..Len(yielded) : \E k \in 1..Len(yielded[b]) :
          tasks[yielded[b][k]].started_at = None
    /\ tasks' = [t \in 1..Len(tasks) |->
                    IF t \in Range(Flatten(yielded)) /\ tasks[t].started_at = None
                    THEN starts_now(tasks[t], clock).task
                    ELSE tasks[t]]
    /\ UNCHANGED <<configVars, matrix, gen, yielded, runVars,
                   sevVars, cliVars, calls, filterVars>>

\* generate_task_batches(workflow_options) is called again on the same matrix
\* once the previous generator is exhausted: a new generator object
MatrixCallAgain ==
    /\ matrix = "ok"
    /\ gen.pc = "done"
    /\ Len(calls) < MaxCalls
    /\ calls' = Append(calls, yielded)
    /\ yielded' = <<>>
    /\ gen' = [pc |-> "start", i |-> 0]
    /\ UNCHANGED <<configVars, matrix, tasks, runVars, sevVars, cliVars, filterVars>>

MNext ==
    \/ MatrixConstruct
    \/ MatrixYield
    \/ MatrixStop
    \/ MatrixRaise
    \/ MatrixRunTasks
    \/ MatrixCallAgain

SpecMatrix == MInit /\ [][MNext]_vars

\* ========================================================== SpecSeverity
StatusLists == UNION {[1..n -> CheckStatus] : n \in 0..MaxLen}

SInit ==
    /\ checks = <<>>
    /\ environments = <<>>
    /\ workflow_options = NONE
    /\ raise_exceptions = FALSE
    /\ matrix = "new"
    /\ gen = [pc |-> "start", i |-> 0]
    /\ yielded = <<>>
    /\ calls = <<>>
    /\ tasks = <<>>
    /\ IdleRun
    /\ IdleCli
    /\ statuses \in StatusLists
    /\ highest = "None"
    /\ IdleFilter

\* CheckStatus.get_highest_severity(statuses)
GetHighestSeverity ==
    /\ highest = "None"
    /\ highest' = get_highest_severity(statuses)
    /\ UNCHANGED <<configVars, matrix, gen, yielded, tasks, runVars, statuses,
                   cliVars, calls, filterVars>>

SNext == GetHighestSeverity

SpecSeverity == SInit /\ [][SNext]_vars

\* ============================================================== SpecTask
\* One Task, as the Matrix creates it, on which starts_now and ends_now are
\* called in any order while time advances.
TInit ==
    /\ checks = <<>>
    /\ environments = <<>>
    /\ workflow_options = NONE
    /\ raise_exceptions = FALSE
    /\ matrix = "new"
    /\ gen = [pc |-> "start", i |-> 0]
    /\ yielded = <<>>
    /\ calls = <<>>
    /\ tasks \in {<<Task(1, EnvToken(1), FALSE, "check")>>,
                  <<Task(1, EnvToken(1), TRUE, "autofix")>>}
    /\ IdleRun
    /\ IdleCli
    /\ IdleSeverity
    /\ IdleFilter

\* task.starts_now()
TaskStartsNow ==
    /\ LET s == starts_now(tasks[1], clock)
       IN /\ tasks' = <<s.task>>
          /\ exc' = IF s.raised THEN "RuntimeError" ELSE "None"
    /\ pc' = "starts_now"
    /\ UNCHANGED <<configVars, matrix, gen, yielded, check_results, objs, results,
                   in_progress, completed, atask, pending, done, seq_i, updater,
                   ret, clock, sevVars, cliVars, calls, filterVars>>

\* task.ends_now()
TaskEndsNow ==
    /\ LET e == ends_now(tasks[1], clock)
       IN /\ tasks' = <<e.task>>
          /\ exc' = IF e.raised THEN "RuntimeError" ELSE "None"
    /\ pc' = "ends_now"
    /\ UNCHANGED <<configVars, matrix, gen, yielded, check_results, objs, results,
                   in_progress, completed, atask, pending, done, seq_i, updater,
                   ret, clock, sevVars, cliVars, calls, filterVars>>

\* time.time() advances
TaskTick ==
    /\ clock < MaxTime
    /\ clock' = clock + 1
    /\ pc' = "tick"
    /\ exc' = "None"
    /\ UNCHANGED <<configVars, matrix, gen, yielded, tasks, check_results, objs,
                   results, in_progress, completed, atask, pending, done, seq_i,
                   updater, ret, sevVars, cliVars, calls, filterVars>>

TNext == TaskStartsNow \/ TaskEndsNow \/ TaskTick

SpecTask == TInit /\ [][TNext]_vars

\* ================================================================= Spec
\* ---------------------------------------- BaseCheck (base_check.py)
\* BaseCheck.result: the most recent entry of _results
\* (raises ValueError on an empty list: "NoResult")
CheckResult(c) ==
    IF check_results[c] = <<>> THEN "NoResult"
    ELSE check_results[c][Len(check_results[c])]

\* CheckResults(name=..., ...) dataclass with its defaults (results.py)
CheckResults(name, status, exception, environment, duration_seconds) ==
    [name |-> name, status |-> status, exception |-> exception,
     environment |-> environment, duration_seconds |-> duration_seconds,
     output |-> <<>>]

\* a line of output produced by the run of task t: it carries the task and the
\* environment the command ran in
OutputLine(t) == [task |-> t, environment |-> tasks[t].environment]

\* ============================================================ SpecLaunch
\* One launch of a CLI check (BaseCheckCLI / CLICheck): the command run by the
\* check function exits with a return code or fails in some other way.
ProcessOutcomes ==
    [kind : {"exit"}, returncode : 0..MaxExit]
        \cup {[kind |-> "exception", returncode |-> 0]}

\* async_check_output: returns the output on exit code 0, raises
\* DetailedCalledProcessError carrying the return code otherwise; any other
\* failure is some other exception
RunCommand(p) ==
    IF p.kind = "exit" /\ p.returncode = 0 THEN "None"
    ELSE IF p.kind = "exit" THEN "DetailedCalledProcessError"
    ELSE "OSError"

\* BaseCheckCLI._execute_check_function: [status, raised]
_execute_check_function_any_exit_fails(p, codes) ==
    IF RunCommand(p) = "None" THEN [status |-> "Success", raised |-> "None"]
    ELSE IF RunCommand(p) = "DetailedCalledProcessError"
    THEN [status |-> "CheckFailed", raised |-> "None"]
    ELSE [status |-> "None", raised |-> RunCommand(p)]

_execute_check_function(p, codes) ==
    IF RunCommand(p) = "None" THEN [status |-> "Success", raised |-> "None"]
    ELSE IF RunCommand(p) = "DetailedCalledProcessError"
    THEN IF p.returncode \notin codes
         THEN [status |-> "None", raised |-> "DetailedCalledProcessError"]
         ELSE [status |-> "CheckFailed", raised |-> "None"]
    ELSE [status |-> "None", raised |-> RunCommand(p)]

LInit ==
    /\ checks \in ChecksOfLen(1)
    /\ environments = EnvsOfLen(1)
    /\ workflow_options = NONE
    /\ raise_exceptions = FALSE
    /\ matrix = "new"
    /\ gen = [pc |-> "start", i |-> 0]
    /\ yielded = <<>>
    /\ calls = <<>>
    /\ tasks = <<>>
    /\ check_results = <<<<>>>>
    /\ objs = <<>>
    /\ results = <<>>
    /\ in_progress = <<>>
    /\ completed = <<>>
    /\ atask = <<>>
    /\ pending = {}
    /\ done = {}
    /\ seq_i = 0
    /\ updater = "none"
    /\ pc = "idle"
    /\ exc = "None"
    /\ ret = "None"
    /\ clock = 1
    /\ IdleSeverity
    /\ IdleFilter
    /\ check_failed_exit_codes \in SUBSET (0..MaxExit)
    /\ process = NoProcess

\* check.launch(task_name, environment, auto_fix) run to its end on a command
\* that ends as p: the new result is appended to _results, the check function
\* writes its lines to self.result.output, launch stores the status and
\* returns the result, or stores the exception with status Error and re-raises
Launch ==
    /\ pc = "idle"
    /\ \E p \in ProcessOutcomes, auto_fix \in BOOLEAN :
          LET rid == Len(objs) + 1
              r == _execute_check_function(p, check_failed_exit_codes)
              new == CheckResults(
                         TaskName(checks[1].name, IF auto_fix THEN "autofix" ELSE "check"),
                         "NotRan", "None", environments[1], None)
              line == [task |-> 0, environment |-> environments[1]]
          IN /\ process' = p
             /\ check_results' = [check_results EXCEPT ![1] = Append(@, rid)]
             /\ IF r.raised = "None"
                THEN /\ objs' = Append(objs, [new EXCEPT !.status = r.status,
                                                         !.output = <<line>>])
                     /\ ret' = r.status
                     /\ exc' = "None"
                ELSE /\ objs' = Append(objs, [new EXCEPT !.status = "Error",
                                                         !.exception = r.raised])
                     /\ ret' = "None"
                     /\ exc' = r.raised
    /\ pc' = "launched"
    /\ UNCHANGED <<configVars, matrix, gen, yielded, tasks, results, in_progress,
                   completed, atask, pending, done, seq_i, updater, clock, sevVars,
                   check_failed_exit_codes, calls, filterVars>>

LNext == Launch

SpecLaunch == LInit /\ [][LNext]_vars

\* ============================================================ SpecFilter
\* stew_ci._filter_checks(checks, include_checks, skip_checks, name_getter)
\* with name_getter = lambda r: r.name. A name is a sequence of character
\* codes, so that str.lower() is computed: "A" = <<65>>, "a" = <<97>>, "b" = <<98>>.
FilterNames == {<<65>>, <<97>>, <<98>>}

NameLists == UNION {[1..n -> FilterNames] : n \in 0..MaxFilter}

\* str.lower() on ASCII
LowerIdentity(name) == name

Lower(name) ==
    [i \in 1..Len(name) |-> IF name[i] \in 65..90 THEN name[i] + 32 ELSE name[i]]

\* the generator run to exhaustion; an absent (None) and an empty list are
\* both falsy and give the empty lowered list
_filter_checks(chks, include, skip) ==
    LET inc == [i \in 1..Len(include) |-> Lower(include[i])]
        sk == [i \in 1..Len(skip) |-> Lower(skip[i])]
        continue(c) ==
            \/ inc # <<>> /\ Lower(c.name) \notin Range(inc)
            \/ Lower(c.name) \in Range(sk)
    IN SelectSeq(chks, LAMBDA c : ~continue(c))

FInit ==
    /\ checks \in {[i \in 1..Len(names) |-> [name |-> names[i], supports_auto_fix |-> FALSE]] :
                     names \in NameLists}
    /\ environments = <<>>
    /\ workflow_options = NONE
    /\ raise_exceptions = FALSE
    /\ matrix = "new"
    /\ gen = [pc |-> "start", i |-> 0]
    /\ yielded = <<>>
    /\ calls = <<>>
    /\ tasks = <<>>
    /\ IdleRun
    /\ IdleCli
    /\ IdleSeverity
    /\ include_checks \in NameLists
    /\ skip_checks \in NameLists
    /\ filtered = <<>>

\* list(_filter_checks(...)) as stew_ci calls it
FilterChecks ==
    /\ pc = "idle"
    /\ filtered' = _filter_checks(checks, include_checks, skip_checks)
    /\ pc' = "filtered"
    /\ UNCHANGED <<configVars, matrix, gen, yielded, tasks, check_results, objs,
                   results, in_progress, completed, atask, pending, done, seq_i,
                   updater, exc, ret, clock, sevVars, cliVars, calls, include_checks,
                   skip_checks>>

FNext == FilterChecks

SpecFilter == FInit /\ [][FNext]_vars

\* ---------------------------------- CIOrchestrator (orchestrator.py)
\* overall_status: severity over task.check.result.status of the completed tasks
overall_status ==
    get_highest_severity(
        [k \in 1..Len(completed) |-> objs[CheckResult(tasks[completed[k]].check)].status])

\* list.remove(task) on a list of Task dataclasses: drops the first element
\* that compares equal to the task
RECURSIVE RemoveTask(_, _)
RemoveTask(s, t) ==
    IF s = <<>> THEN <<>>
    ELSE IF tasks[Head(s)] = tasks[t] THEN Tail(s)
    ELSE <<Head(s)>> \o RemoveTask(Tail(s), t)

\* _mark_task_completed
MarkCompleted(t) ==
    /\ completed' = Append(completed, t)
    /\ in_progress' = RemoveTask(in_progress, t)

ATask(state, result, exception) ==
    [state |-> state, result |-> result, exception |-> exception]

IsOver(a) == a.state \in {"finished", "failed", "cancelled"}

CurrentBatch == yielded[Len(yielded)]

\* the orchestrator as CIOrchestrator.__post_init__ leaves it
Init ==
    /\ \E n \in 1..MaxChecks : checks \in ChecksOfLen(n)
    /\ \E n \in 1..MaxEnvs : environments = EnvsOfLen(n)
    /\ Len(checks) * Len(environments) <= MaxBatch
    /\ workflow_options \in 0..AllFlags
    /\ raise_exceptions \in BOOLEAN
    /\ matrix = MatrixPostInit(environments, checks)
    /\ gen = [pc |-> "start", i |-> 0]
    /\ yielded = <<>>
    /\ calls = <<>>
    /\ tasks = <<>>
    /\ check_results = [c \in 1..Len(checks) |-> <<>>]
    /\ objs = <<>>
    /\ results = <<>>
    /\ in_progress = <<>>
    /\ completed = <<>>
    /\ atask = <<>>
    /\ pending = {}
    /\ done = {}
    /\ seq_i = 0
    /\ updater = "none"
    /\ pc = "constructed"
    /\ exc = "None"
    /\ ret = "None"
    /\ clock = 1
    /\ IdleSeverity
    /\ IdleFilter
    /\ IdleCli

\* orchestrate() up to the for loop over the batches
Orchestrate ==
    /\ pc = "constructed"
    /\ IF checks = <<>>
       THEN pc' = "returned" /\ ret' = "NotRan"
       ELSE pc' = "loop" /\ ret' = ret
    /\ UNCHANGED <<configVars, matrix, gen, yielded, tasks, check_results, objs,
                   results, in_progress, completed, atask, pending, done, seq_i,
                   updater, exc, clock, sevVars, cliVars, calls, filterVars>>

\* the for loop asks the generator for a batch and the generator raises
BatchRaise ==
    /\ pc = "loop"
    /\ LET r == GenNext(gen, environments, checks, workflow_options)
       IN /\ r.kind = "raise"
          /\ gen' = r.gen
    /\ pc' = "raised"
    /\ exc' = "ValueError"
    /\ UNCHANGED <<configVars, matrix, yielded, tasks, check_results, objs, results,
                   in_progress, completed, atask, pending, done, seq_i, updater,
                   ret, clock, sevVars, cliVars, calls, filterVars>>

\* the generator is exhausted: return self.overall_status
BatchStop ==
    /\ pc = "loop"
    /\ LET r == GenNext(gen, environments, checks, workflow_options)
       IN /\ r.kind = "stop"
          /\ gen' = r.gen
    /\ pc' = "returned"
    /\ ret' = overall_status
    /\ UNCHANGED <<configVars, matrix, yielded, tasks, check_results, objs, results,
                   in_progress, completed, atask, pending, done, seq_i, updater,
                   exc, clock, sevVars, cliVars, calls, filterVars>>

\* _run_tasks_sequentially up to its first await on a running task
BatchSequentialAllAtOnce ==
    /\ pc = "loop"
    /\ HasFlag(workflow_options, SEQUENTIAL)
    /\ LET r == GenNext(gen, environments, checks, workflow_options)
           ids == NewIds(r.batch)
       IN /\ r.kind = "yield"
          /\ gen' = r.gen
          /\ yielded' = Append(yielded, ids)
          /\ tasks' = tasks \o r.batch
          /\ atask' = atask \o [k \in 1..Len(ids) |-> ATask("created", 0, "None")]
          /\ IF ids = <<>>
             THEN pc' = "loop" /\ seq_i' = 0 /\ updater' = "none"
             ELSE pc' = "seq" /\ seq_i' = 1 /\ updater' = "running"
    /\ UNCHANGED <<configVars, matrix, check_results, objs, results, in_progress,
                   completed, pending, done, exc, ret, clock,
                   sevVars, cliVars, calls, filterVars>>

BatchSequential ==
    /\ pc = "loop"
    /\ HasFlag(workflow_options, SEQUENTIAL)
    /\ LET r == GenNext(gen, environments, checks, workflow_options)
           ids == NewIds(r.batch)
       IN /\ r.kind = "yield"
          /\ gen' = r.gen
          /\ yielded' = Append(yielded, ids)
          /\ tasks' = tasks \o r.batch
          /\ atask' = atask \o [k \in 1..Len(ids) |->
                                   ATask(IF k = 1 THEN "created" ELSE "none", 0, "None")]
          /\ IF ids = <<>>
             THEN pc' = "loop" /\ seq_i' = 0 /\ updater' = "none"
             ELSE pc' = "seq" /\ seq_i' = 1 /\ updater' = "running"
    /\ UNCHANGED <<configVars, matrix, check_results, objs, results, in_progress,
                   completed, pending, done, exc, ret, clock,
                   sevVars, cliVars, calls, filterVars>>

BatchParallelNoWait ==
    /\ pc = "loop"
    /\ ~HasFlag(workflow_options, SEQUENTIAL)
    /\ LET r == GenNext(gen, environments, checks, workflow_options)
           ids == NewIds(r.batch)
       IN /\ r.kind = "yield"
          /\ gen' = r.gen
          /\ yielded' = Append(yielded, ids)
          /\ tasks' = tasks \o r.batch
          /\ atask' = atask \o [k \in 1..Len(ids) |-> ATask("created", 0, "None")]
          /\ pending' = pending \cup Range(ids)
          /\ updater' = "running"
          /\ pc' = IF gen'.pc = "checked" THEN "wait" ELSE "loop"
    /\ UNCHANGED <<configVars, matrix, check_results, objs, results, in_progress,
                   completed, done, seq_i, exc, ret, clock,
                   sevVars, cliVars, calls, filterVars>>

\* _run_tasks_in_parallel up to its first await on asyncio.wait
BatchParallel ==
    /\ pc = "loop"
    /\ ~HasFlag(workflow_options, SEQUENTIAL)
    /\ LET r == GenNext(gen, environments, checks, workflow_options)
           ids == NewIds(r.batch)
       IN /\ r.kind = "yield"
          /\ gen' = r.gen
          /\ yielded' = Append(yielded, ids)
          /\ tasks' = tasks \o r.batch
          /\ atask' = atask \o [k \in 1..Len(ids) |-> ATask("created", 0, "None")]
          /\ IF ids = <<>>
             THEN pc' = "loop" /\ pending' = {} /\ updater' = "none"
             ELSE pc' = "wait" /\ pending' = Range(ids) /\ updater' = "running"
    /\ UNCHANGED <<configVars, matrix, check_results, objs, results, in_progress,
                   completed, done, seq_i, exc, ret, clock,
                   sevVars, cliVars, calls, filterVars>>

\* first step of _run_task_without_output, up to the suspension inside
\* check.launch: the event loop starts the created tasks in creation order
TaskBegin(t) ==
    /\ pc \in {"seq", "wait"}
    /\ done = {}
    /\ atask[t].state = "created"
    /\ \A u \in 1..(t - 1) : atask[u].state # "created"
    /\ LET s == starts_now(tasks[t], clock)
           c == tasks[t].check
           rid == Len(objs) + 1
       IN /\ in_progress' = Append(in_progress, t)
          /\ tasks' = [tasks EXCEPT ![t] = s.task]
          /\ clock' = clock + 1
          /\ IF s.raised
             THEN /\ atask' = [atask EXCEPT ![t] = ATask("failed", 0, "RuntimeError")]
                  /\ UNCHANGED <<objs, check_results>>
             ELSE /\ objs' = Append(objs,
                        CheckResults(TaskName(checks[c].name, tasks[t].purpose),
                                     "NotRan", "None", tasks[t].environment, None))
                  /\ check_results' = [check_results EXCEPT ![c] = Append(@, rid)]
                  /\ atask' = [atask EXCEPT ![t] = ATask("running", rid, "None")]
    /\ UNCHANGED <<configVars, matrix, gen, yielded, results, completed, pending,
                   done, seq_i, updater, pc, exc, ret,
                   sevVars, cliVars, calls, filterVars>>

\* the check function returns status st after writing the output of its
\* command to self.result.output, the most recent result of the check; launch
\* stores the status in its own result and returns it; the else and finally
\* branches of _run_task_without_output
FinishReturn(t, st) ==
    LET rid == atask[t].result
        d == duration(tasks[t], clock)
        e == ends_now(tasks[t], clock + 1)
    IN /\ objs' = [objs EXCEPT ![CheckResult(tasks[t].check)].output =
                                   Append(@, OutputLine(t)),
                               ![rid].status = st,
                               ![rid].duration_seconds = d]
       /\ results' = Append(results, rid)
       /\ tasks' = [tasks EXCEPT ![t] = e.task]
       /\ clock' = clock + 2
       /\ atask' = [atask EXCEPT ![t] =
                       IF e.raised THEN ATask("failed", rid, "RuntimeError")
                       ELSE ATask("finished", rid, "None")]

\* the check function raises: launch marks its result Error and re-raises;
\* the except and finally branches of _run_task_without_output
FinishRaise(t) ==
    LET rid == atask[t].result
        c == tasks[t].check
        e1 == ends_now(tasks[t], clock)
        new == Len(objs) + 1
        e2 == ends_now(e1.task, clock + 1)
    IN /\ clock' = clock + 2
       /\ IF e1.raised
          THEN \* the except branch itself fails before building a result
               /\ objs' = [objs EXCEPT ![rid].status = "Error",
                                       ![rid].exception = "CheckError"]
               /\ results' = results
               /\ tasks' = [tasks EXCEPT ![t] = e2.task]
               /\ atask' = [atask EXCEPT ![t] = ATask("failed", rid, "RuntimeError")]
          ELSE /\ objs' = Append(
                     [objs EXCEPT ![rid].status = "Error", ![rid].exception = "CheckError"],
                     CheckResults(TaskName(checks[c].name, tasks[t].purpose), "Error",
                                  "CheckError", None, duration(e1.task, clock)))
               /\ results' = Append(results, new)
               /\ tasks' = [tasks EXCEPT ![t] = e2.task]
               /\ atask' = [atask EXCEPT ![t] =
                               IF e2.raised THEN ATask("failed", new, "RuntimeError")
                               ELSE IF raise_exceptions THEN ATask("failed", new, "CheckError")
                               ELSE ATask("finished", new, "None")]

\* the suspended launch of task t resumes with outcome o and
\* _run_task_without_output runs to its end
TaskFinish(t, o) ==
    /\ pc \in {"seq", "wait"}
    /\ done = {}
    /\ atask[t].state = "running"
    /\ IF o = "raise" THEN FinishRaise(t) ELSE FinishReturn(t, o)
    /\ UNCHANGED <<configVars, matrix, gen, yielded, check_results, in_progress,
                   completed, pending, done, seq_i, updater, pc, exc, ret,
                   sevVars, cliVars, calls, filterVars>>

\* _run_tasks_sequentially resumes from `await running_task`
SeqResume ==
    /\ pc = "seq"
    /\ LET t == CurrentBatch[seq_i]
       IN /\ IsOver(atask[t])
          /\ IF atask[t].state = "finished"
             THEN /\ MarkCompleted(t)
                  /\ exc' = exc
                  /\ IF seq_i < Len(CurrentBatch)
                     THEN /\ seq_i' = seq_i + 1
                          /\ atask' = [atask EXCEPT ![CurrentBatch[seq_i + 1]].state = "created"]
                          /\ pc' = "seq"
                          /\ updater' = updater
                     ELSE /\ seq_i' = 0
                          /\ atask' = atask
                          /\ pc' = "loop"
                          /\ updater' = "none"
             ELSE \* the exception of the task leaves the loop through finally
                  /\ exc' = atask[t].exception
                  /\ pc' = "raised"
                  /\ updater' = "none"
                  /\ UNCHANGED <<completed, in_progress, seq_i, atask>>
    /\ UNCHANGED <<configVars, matrix, gen, yielded, tasks, check_results, objs,
                   results, pending, done, ret, clock,
                   sevVars, cliVars, calls, filterVars>>

\* asyncio.wait(pending, return_when=FIRST_COMPLETED) returns the tasks that are over
WaitReturnsUnfinished ==
    /\ pc = "wait"
    /\ done = {}
    /\ pending # {}
    /\ done' = pending
    /\ pending' = {}
    /\ UNCHANGED <<configVars, matrix, gen, yielded, tasks, check_results, objs,
                   results, in_progress, completed, atask, seq_i, updater, pc, exc,
                   ret, clock, sevVars, cliVars, calls, filterVars>>

Wait ==
    /\ pc = "wait"
    /\ done = {}
    /\ LET over == {t \in pending : IsOver(atask[t])}
       IN /\ over # {}
          /\ done' = over
          /\ pending' = pending \ over
    /\ UNCHANGED <<configVars, matrix, gen, yielded, tasks, check_results, objs,
                   results, in_progress, completed, atask, seq_i, updater, pc, exc,
                   ret, clock, sevVars, cliVars, calls, filterVars>>

\* one iteration of `for completed in done`; after the last one the while
\* loop either waits again or ends the batch through finally
ProcessDoneNeverLeaves(t) ==
    /\ pc = "wait"
    /\ t \in done
    /\ done' = done \ {t}
    /\ IF atask[t].state = "finished"
       THEN MarkCompleted(t)
       ELSE UNCHANGED <<completed, in_progress>>
    /\ UNCHANGED <<configVars, matrix, gen, yielded, tasks, check_results, objs,
                   results, atask, pending, seq_i, updater, pc, exc, ret, clock,
                   sevVars, cliVars, calls, filterVars>>

ProcessDone(t) ==
    /\ pc = "wait"
    /\ t \in done
    /\ done' = done \ {t}
    /\ IF atask[t].state = "finished"
       THEN MarkCompleted(t)
       ELSE UNCHANGED <<completed, in_progress>>
    /\ IF done' = {} /\ pending = {}
       THEN pc' = "loop" /\ updater' = "none"
       ELSE pc' = "wait" /\ updater' = updater
    /\ UNCHANGED <<configVars, matrix, gen, yielded, tasks, check_results, objs,
                   results, atask, pending, seq_i, exc, ret, clock,
                   sevVars, cliVars, calls, filterVars>>

\* cancelling the asyncio tasks that are not over, in creation order: a task
\* suspended in launch gets CancelledError and runs its finally (ends_now), a
\* task that never began is dropped
RECURSIVE CancelFromCreatedOnly(_, _, _, _)
CancelFromCreatedOnly(t, ts, as, now) ==
    IF t > Len(ts) THEN [tasks |-> ts, atask |-> as, clock |-> now]
    ELSE IF as[t].state = "created"
    THEN CancelFromCreatedOnly(t + 1, ts, [as EXCEPT ![t].state = "cancelled"], now)
    ELSE CancelFromCreatedOnly(t + 1, ts, as, now)

RECURSIVE CancelFrom(_, _, _, _)
CancelFrom(t, ts, as, now) ==
    IF t > Len(ts) THEN [tasks |-> ts, atask |-> as, clock |-> now]
    ELSE IF as[t].state = "running"
    THEN CancelFrom(t + 1, [ts EXCEPT ![t] = ends_now(ts[t], now).task],
                    [as EXCEPT ![t].state = "cancelled"], now + 1)
    ELSE IF as[t].state = "created"
    THEN CancelFrom(t + 1, ts, [as EXCEPT ![t].state = "cancelled"], now)
    ELSE CancelFrom(t + 1, ts, as, now)

\* the operator interrupts the run: every unfinished asyncio task is cancelled
\* and asyncio.run raises KeyboardInterrupt to stew_ci
Interrupt ==
    /\ pc \in {"loop", "seq", "wait"}
    /\ LET r == CancelFrom(1, tasks, atask, clock)
       IN /\ tasks' = r.tasks
          /\ atask' = r.atask
          /\ clock' = r.clock
    /\ pc' = "interrupted"
    /\ exc' = "KeyboardInterrupt"
    /\ updater' = "none"
    /\ UNCHANGED <<configVars, matrix, gen, yielded, check_results, objs, results,
                   in_progress, completed, pending, done, seq_i, ret,
                   sevVars, cliVars, calls, filterVars>>

\* stew_ci, except KeyboardInterrupt: one Cancelled result per check whose
\* name is not the name of any recorded result
RECURSIVE CancelledFor(_, _)
CancelledFor(chks, ran) ==
    IF chks = <<>> THEN <<>>
    ELSE (IF TaskName(Head(chks).name, "check") \notin ran
          THEN <<CheckResults(TaskName(Head(chks).name, "check"), "Cancelled", "None", None, 0)>>
          ELSE <<>>) \o CancelledFor(Tail(chks), ran)

StewCiInterrupted ==
    /\ pc = "interrupted"
    /\ LET ran_check_names == {objs[results[k]].name : k \in 1..Len(results)}
           new == CancelledFor(checks, ran_check_names)
       IN /\ objs' = objs \o new
          /\ results' = results \o [k \in 1..Len(new) |-> Len(objs) + k]
    /\ ret' = "Cancelled"
    /\ pc' = "reported"
    /\ UNCHANGED <<configVars, matrix, gen, yielded, tasks, check_results,
                   in_progress, completed, atask, pending, done, seq_i, updater,
                   exc, clock, sevVars, cliVars, calls, filterVars>>

Next ==
    \/ Orchestrate
    \/ BatchRaise
    \/ BatchStop
    \/ BatchSequential
    \/ BatchParallel
    \/ \E t \in 1..Len(tasks) : TaskBegin(t)
    \/ \E t \in 1..Len(tasks), o \in LaunchOutcomes : TaskFinish(t, o)
    \/ SeqResume
    \/ Wait
    \/ \E t \in done : ProcessDone(t)
    \/ Interrupt
    \/ StewCiInterrupted

Spec == Init /\ [][Next]_vars

\* =============================================================== SpecLive
\* A run that is not interrupted, under the scheduling of the asyncio event
\* loop: a coroutine that can run is eventually run, and every launch that
\* was started eventually returns or raises.
MainCoroutineStep ==
    \/ Orchestrate
    \/ BatchRaise
    \/ BatchStop
    \/ BatchSequential
    \/ BatchParallel
    \/ SeqResume
    \/ Wait
    \/ \E t \in done : ProcessDone(t)

TaskBeginStep == \E t \in 1..Len(tasks) : TaskBegin(t)

TaskFinishStep == \E t \in 1..Len(tasks), o \in LaunchOutcomes : TaskFinish(t, o)

LiveNext == MainCoroutineStep \/ TaskBeginStep \/ TaskFinishStep

SpecLive ==
    /\ Init
    /\ [][LiveNext]_vars
    /\ WF_vars(MainCoroutineStep)
    /\ WF_vars(TaskBeginStep)
    /\ WF_vars(TaskFinishStep)

\* ============================================================ properties
\* list(matrix.generate_task_batches(options)): every batch the generator
\* yields from state g
RECURSIVE BatchesFrom(_, _, _, _)
BatchesFrom(g, envs, chks, options) ==
    LET r == GenNext(g, envs, chks, options)
    IN IF r.kind = "yield"
       THEN <<r.batch>> \o BatchesFrom(r.gen, envs, chks, options)
       ELSE <<>>

\* the tasks planned by the Matrix for the configured run
Planned ==
    Flatten(BatchesFrom([pc |-> "start", i |-> 0], environments, checks, workflow_options))

\* the check function of some launch raised
LaunchRaised == \E i \in 1..Len(objs) : objs[i].exception = "CheckError"

\* orchestrate() has finished in a run that was not asked to re-raise
Finished ==
    \/ pc = "returned"
    \/ pc = "raised" /\ ~raise_exceptions /\ workflow_options # NONE

BatchHas(b, P(_)) == \E k \in 1..Len(yielded[b]) : P(tasks[yielded[b][k]])
IsAutofixTask(t) == t.enable_autofix \/ t.purpose = "autofix"
IsCheckTask(t) == ~t.enable_autofix \/ t.purpose = "check"
AutofixBatches == {b \in 1..Len(yielded) : BatchHas(b, IsAutofixTask)}
CheckBatches == {b \in 1..Len(yielded) : BatchHas(b, IsCheckTask)}
Exhausted == matrix = "ok" /\ gen.pc = "done"

\* C1: when orchestrate() returns, the returned status is the most severe
\* status among the Results of the completed tasks (each task's own Result),
\* and NotRan when no task completed
C1_OverallStatusMostSevere ==
    pc = "returned" =>
        ret = get_highest_severity(
                [k \in 1..Len(completed) |-> objs[atask[completed[k]].result].status])

\* C2: once orchestrate() has finished in a run that is not cancelled, the
\* results list holds exactly one Result for every task planned by the Matrix
C2_OneResultPerPlannedTask ==
    Finished =>
        /\ Len(tasks) = Len(Planned)
        /\ Len(results) = Len(Planned)
        /\ \A t \in 1..Len(tasks) :
              Cardinality({k \in 1..Len(results) : results[k] = atask[t].result}) = 1

\* C3: with raise_exceptions disabled a raising launch does not abort the run:
\* orchestrate() does not raise, and when it returns every planned task was started
C3_RaisingLaunchDoesNotAbort ==
    (~raise_exceptions /\ workflow_options # NONE) =>
        /\ pc # "raised"
        /\ pc = "returned" =>
              /\ Len(tasks) = Len(Planned)
              /\ \A t \in 1..Len(tasks) : tasks[t].started_at # None

\* C4: when a launch raised, an Error Result carrying the exception is
\* recorded and the status returned by orchestrate() is Error
C4_RaisingLaunchGivesError ==
    LaunchRaised =>
        /\ \E k \in 1..Len(results) :
              /\ objs[results[k]].status = "Error"
              /\ objs[results[k]].exception = "CheckError"
        /\ pc = "returned" => ret = "Error"

\* C5: after an interrupted run the result list assembled by stew_ci has
\* exactly one entry per planned task, the entries of the tasks that did not
\* complete being Cancelled
C5_InterruptedRunListsEveryTask ==
    (pc = "reported" /\ HasFlag(workflow_options, CHECK)) =>
        /\ Len(results) = Len(Planned)
        /\ Cardinality({k \in 1..Len(results) : objs[results[k]].status = "Cancelled"})
              = Len(Planned) - Cardinality({t \in 1..Len(tasks) : atask[t].state = "finished"})

\* C6: a task of a batch is started only when every task of the preceding
\* batches has finished: its asyncio task is over and the Task has ended, no
\* later than the start of the new task
C6_BatchBarrier ==
    \A b \in 1..Len(yielded) : \A a \in 1..(b - 1) :
        \A t \in Range(yielded[b]) : \A u \in Range(yielded[a]) :
            tasks[t].started_at # None =>
                /\ IsOver(atask[u])
                /\ is_complete(tasks[u])
                /\ tasks[u].ended_at <= tasks[t].started_at

C6_Witness ==
    /\ Len(yielded) >= 2
    /\ \E t \in Range(yielded[2]) : tasks[t].started_at # None
    /\ \E u \in Range(yielded[1]) : atask[u].state = "finished"

\* C7: with AUTOFIX and CHECK both set, every autofix batch comes strictly
\* before the check batch and no batch from the check batch on holds a task
\* with autofix enabled
C7_AutofixBeforeCheck ==
    (matrix = "ok" /\ HasFlag(workflow_options, AUTOFIX) /\ HasFlag(workflow_options, CHECK)) =>
        \A c \in CheckBatches :
            /\ \A a \in AutofixBatches : a < c
            /\ \A b \in c..Len(yielded) : \A k \in 1..Len(yielded[b]) :
                  ~tasks[yielded[b][k]].enable_autofix

C7_Witness ==
    /\ Exhausted
    /\ HasFlag(workflow_options, AUTOFIX) /\ HasFlag(workflow_options, CHECK)
    /\ AutofixBatches # {}
    /\ CheckBatches # {}

\* C8: with AUTOFIX set, the exhausted generator has yielded one singleton
\* autofix batch per check supporting autofix, in the order of the checks,
\* each task with enable_autofix, purpose "autofix" and the first environment,
\* and no autofix task for any other check
C8_OneAutofixTaskPerCapableCheck ==
    (Exhausted /\ HasFlag(workflow_options, AUTOFIX)) =>
        LET capable == SelectSeq([j \in 1..Len(checks) |-> j],
                                 LAMBDA j : checks[j].supports_auto_fix)
            auto == SelectSeq([b \in 1..Len(yielded) |-> b],
                              LAMBDA b : b \in AutofixBatches)
        IN /\ Len(auto) = Len(capable)
           /\ \A n \in 1..Len(auto) :
                 /\ Len(yielded[auto[n]]) = 1
                 /\ LET t == tasks[yielded[auto[n]][1]]
                    IN /\ t.check = capable[n]
                       /\ t.enable_autofix
                       /\ t.purpose = "autofix"
                       /\ t.environment = environments[1]

C8_Witness ==
    /\ Exhausted
    /\ HasFlag(workflow_options, AUTOFIX)
    /\ Len(environments) >= 2
    /\ Cardinality(AutofixBatches) >= 1
    /\ \E j \in 1..Len(checks) : ~checks[j].supports_auto_fix

\* C9: with CHECK set, the exhausted generator has yielded exactly one check
\* batch of len(checks) * len(environments) tasks in which every (check,
\* environment) pair occurs exactly once, all with enable_autofix False and
\* purpose "check"
C9_OneCheckTaskPerPair ==
    (Exhausted /\ HasFlag(workflow_options, CHECK)) =>
        /\ Cardinality(CheckBatches) = 1
        /\ \A b \in CheckBatches :
              /\ Len(yielded[b]) = Len(checks) * Len(environments)
              /\ \A k \in 1..Len(yielded[b]) :
                    /\ ~tasks[yielded[b][k]].enable_autofix
                    /\ tasks[yielded[b][k]].purpose = "check"
              /\ \A c \in 1..Len(checks) : \A e \in Range(environments) :
                    Cardinality({k \in 1..Len(yielded[b]) :
                                    /\ tasks[yielded[b][k]].check = c
                                    /\ tasks[yielded[b][k]].environment = e}) = 1

C9_Witness ==
    /\ Exhausted
    /\ HasFlag(workflow_options, CHECK)
    /\ Len(checks) >= 2
    /\ Len(environments) >= 2

\* C10 (as amended): get_highest_severity returns Error if the list holds an
\* Error; else CheckFailed if it holds one; else Cancelled if it holds one;
\* else Success if it holds one; and NotRan for the empty list and for a list
\* holding nothing but NotRan
C10_HighestSeverity ==
    highest # "None" =>
        LET S == Range(statuses)
        IN /\ "Error" \in S => highest = "Error"
           /\ ("Error" \notin S /\ "CheckFailed" \in S) => highest = "CheckFailed"
           /\ (S \cap {"Error", "CheckFailed"} = {} /\ "Cancelled" \in S)
                 => highest = "Cancelled"
           /\ (S \cap {"Error", "CheckFailed", "Cancelled"} = {} /\ "Success" \in S)
                 => highest = "Success"
           /\ S \subseteq {"NotRan"} => highest = "NotRan"

C10_Witness ==
    /\ highest = "NotRan"
    /\ statuses # <<>>

\* C10 (as claimed): ... otherwise Success for any other non-empty list, and
\* NotRan for the empty list
C10_AsClaimed ==
    highest # "None" =>
        LET S == Range(statuses)
        IN /\ "Error" \in S => highest = "Error"
           /\ ("Error" \notin S /\ "CheckFailed" \in S) => highest = "CheckFailed"
           /\ (S \cap {"Error", "CheckFailed"} = {} /\ "Cancelled" \in S)
                 => highest = "Cancelled"
           /\ (S \cap {"Error", "CheckFailed", "Cancelled"} = {} /\ statuses # <<>>)
                 => highest = "Success"
           /\ statuses = <<>> => highest = "NotRan"

\* C11: a Task only moves NotStarted -> InProgress -> Complete: starts_now
\* raises exactly when the task was already started, ends_now raises exactly
\* when the task was never started or is already complete, a call that raises
\* changes neither timestamp, a timestamp once set is never changed, and
\* ended_at is set only on a started task
C11_TaskStateMachine ==
    [][/\ pc' = "starts_now" =>
             (exc' = "RuntimeError" <=> tasks[1].started_at # None)
       /\ pc' = "ends_now" =>
             (exc' = "RuntimeError" <=>
                 (tasks[1].started_at = None \/ tasks[1].ended_at # None))
       /\ exc' = "RuntimeError" => tasks'[1] = tasks[1]
       /\ tasks[1].started_at # None => tasks'[1].started_at = tasks[1].started_at
       /\ tasks[1].ended_at # None => tasks'[1].ended_at = tasks[1].ended_at
       /\ tasks'[1].ended_at # None => tasks'[1].started_at # None]_vars

C11_Witness ==
    /\ pc = "ends_now"
    /\ exc = "RuntimeError"
    /\ tasks[1].ended_at # None
    /\ tasks[1].ended_at < clock

\* C12: for every workflow-options value in which neither CHECK nor AUTOFIX is
\* set, whatever the other flags, consuming generate_task_batches raises
\* ValueError and yields no batch
C12_NeitherCheckNorAutofixRaises ==
    (/\ matrix = "ok"
     /\ ~HasFlag(workflow_options, CHECK)
     /\ ~HasFlag(workflow_options, AUTOFIX)
     /\ gen.pc # "start")
        => (gen.pc = "raised" /\ yielded = <<>>)

\* C13: with workflow options NONE the generator raises ValueError on its
\* first next(), before any batch is yielded
C13_NoneRaisesBeforeAnyBatch ==
    (matrix = "ok" /\ workflow_options = NONE)
        => (yielded = <<>> /\ gen.pc \in {"start", "raised"})

C13_Witness ==
    /\ matrix = "ok"
    /\ workflow_options = NONE
    /\ gen.pc = "raised"
    /\ yielded = <<>>

\* C14: constructing a CIMatrix raises ValueError exactly when the environment
\* sequence or the check sequence is empty, so no matrix exists (and none is
\* ever iterated) with zero environments or zero checks
C14_EmptyMatrixRaises ==
    /\ matrix # "new" =>
          (matrix = "ValueError" <=> (environments = <<>> \/ checks = <<>>))
    /\ matrix = "ok" => (environments # <<>> /\ checks # <<>>)
    /\ matrix # "ok" => (gen.pc = "start" /\ yielded = <<>>)

C14_Witness ==
    /\ matrix = "ValueError"
    /\ checks = <<>>
    /\ environments # <<>>

\* C15: with raise_exceptions enabled, once a launch has raised, orchestrate()
\* ends by propagating that same exception to its caller, after an Error
\* Result was recorded for the task, in sequential and in parallel mode alike
C15_RaiseExceptionsPropagates ==
    (raise_exceptions /\ LaunchRaised /\ pc \in {"returned", "raised"})
        => /\ pc = "raised"
           /\ exc = "CheckError"
           /\ \E k \in 1..Len(results) : objs[results[k]].status = "Error"

\* position of a task in the enumeration the Matrix is specified to follow:
\* the autofix tasks in check order, then the check tasks environment by
\* environment and, within an environment, check by check
EnvIndex(e) == CHOOSE i \in 1..Len(environments) : environments[i] = e
EnumerationRank(t) ==
    IF t.enable_autofix THEN t.check
    ELSE Len(checks) + (EnvIndex(t.environment) - 1) * Len(checks) + t.check

C17_ParallelRecordsInFinishOrder ==
    (~HasFlag(workflow_options, SEQUENTIAL) /\ pc = "wait") =>
        /\ \A k \in 1..Len(CurrentBatch) :
              /\ CurrentBatch[k] <= Len(atask)
              /\ atask[CurrentBatch[k]].state # "none"
        /\ done = {} =>
              \A k \in 1..Len(CurrentBatch) :
                  LET t == CurrentBatch[k]
                  IN (IsOver(atask[t]) /\ t \notin pending) =>
                        /\ t \in Range(completed)
                        /\ t \notin Range(in_progress)
        /\ \A k, l \in 1..Len(completed) :
              k < l => tasks[completed[k]].ended_at <= tasks[completed[l]].ended_at

\* C18: given distinct checks and distinct environments, two different tasks
\* with the same (check, environment) pair are never in progress at the same
\* time, the autofix task of a check and its check task on the first
\* environment included
C18_SamePairNeverConcurrent ==
    \A t, u \in 1..Len(tasks) :
        (/\ t # u
         /\ tasks[t].check = tasks[u].check
         /\ tasks[t].environment = tasks[u].environment)
            => ~(is_in_progress(tasks[t]) /\ is_in_progress(tasks[u]))

C18_Witness ==
    \E t, u \in 1..Len(tasks) :
        /\ ~HasFlag(workflow_options, SEQUENTIAL)
        /\ tasks[t].enable_autofix
        /\ ~tasks[u].enable_autofix
        /\ tasks[t].check = tasks[u].check
        /\ tasks[t].environment = tasks[u].environment
        /\ is_complete(tasks[t])
        /\ is_in_progress(tasks[u])
        /\ \E v \in 1..Len(tasks) : v # u /\ is_in_progress(tasks[v])

\* C19: concurrently running tasks share no mutable state: every output line
\* recorded in a Result was produced by the launch that created that Result,
\* in the environment of that Result, and a launch that returned has its
\* output in its own Result
C19_OutputInOwnResult ==
    /\ \A r \in 1..Len(objs) : \A k \in 1..Len(objs[r].output) :
          /\ objs[r].output[k].environment = objs[r].environment
          /\ atask[objs[r].output[k].task].result = r
    /\ \A t \in 1..Len(atask) :
          atask[t].state = "finished" =>
              \E k \in 1..Len(objs[atask[t].result].output) :
                  objs[atask[t].result].output[k].task = t

\* C20: when a parallel run is interrupted every asyncio task that was not
\* over is cancelled, so that once the interrupt has been handled no task is
\* running, waiting to run or in progress and the status updater is stopped;
\* from then on no task starts and no further batch is taken from the Matrix
C20_InterruptCancelsEverything ==
    /\ [](( ~HasFlag(workflow_options, SEQUENTIAL)
            /\ pc \in {"interrupted", "reported"}) =>
              /\ Len(atask) = Len(tasks)
              /\ \A t \in 1..Len(tasks) :
                    /\ atask[t].state \in {"finished", "failed", "cancelled"}
                    /\ ~is_in_progress(tasks[t])
                    /\ atask[t].state = "cancelled" => t \notin Range(completed)
              /\ updater = "none")
    /\ [][( ~HasFlag(workflow_options, SEQUENTIAL)
            /\ pc \in {"interrupted", "reported"}) =>
              /\ pc' \in {"interrupted", "reported"}
              /\ UNCHANGED <<tasks, atask, yielded, gen, in_progress, completed,
                             check_results, updater>>]_vars

C20_Witness ==
    /\ ~HasFlag(workflow_options, SEQUENTIAL)
    /\ pc = "reported"
    /\ \E t, u, v \in 1..Len(tasks) :
          /\ atask[t].state = "finished"
          /\ atask[u].state = "cancelled" /\ is_complete(tasks[u])
          /\ atask[v].state = "cancelled" /\ tasks[v].started_at = None

\* statuses of the Results produced by the tasks recorded as completed
CompletedStatuses == {objs[atask[completed[k]].result].status : k \in 1..Len(completed)}

\* C21: when a run is interrupted the status returned to the caller follows
\* the severity order: Error if a completed task errored, CheckFailed if one
\* failed and none errored, Cancelled only when none failed or errored
C21_InterruptedStatusFollowsSeverity ==
    pc = "reported" =>
        ret = IF "Error" \in CompletedStatuses THEN "Error"
              ELSE IF "CheckFailed" \in CompletedStatuses THEN "CheckFailed"
              ELSE "Cancelled"

\* C22: check tasks are yielded only when CHECK is set and autofix tasks only
\* when AUTOFIX is set and only for checks that support autofix; with AUTOFIX
\* alone the batches are exactly the singleton autofix batches; with CHECK
\* alone there is exactly one batch and no autofix task; with AUTOFIX|CHECK
\* and no autofix-capable check there is only the check batch
C22_FlagsSelectTaskKinds ==
    matrix = "ok" =>
        LET capable == {j \in 1..Len(checks) : checks[j].supports_auto_fix}
            auto == HasFlag(workflow_options, AUTOFIX)
            chk == HasFlag(workflow_options, CHECK)
        IN /\ \A t \in 1..Len(tasks) :
                 IF tasks[t].enable_autofix
                 THEN auto /\ tasks[t].check \in capable /\ tasks[t].purpose = "autofix"
                 ELSE chk /\ tasks[t].purpose = "check"
           /\ (Exhausted /\ auto /\ ~chk) =>
                 /\ Len(yielded) = Cardinality(capable)
                 /\ \A b \in 1..Len(yielded) :
                       Len(yielded[b]) = 1 /\ tasks[yielded[b][1]].enable_autofix
           /\ (Exhausted /\ chk /\ ~auto) =>
                 /\ Len(yielded) = 1
                 /\ Len(yielded[1]) = Len(checks) * Len(environments)
                 /\ \A t \in 1..Len(tasks) : ~tasks[t].enable_autofix
           /\ (Exhausted /\ chk /\ auto /\ capable = {}) =>
                 /\ Len(yielded) = 1
                 /\ \A t \in 1..Len(tasks) : ~tasks[t].enable_autofix

C22_Witness ==
    /\ Exhausted
    /\ HasFlag(workflow_options, AUTOFIX)
    /\ ~HasFlag(workflow_options, CHECK)
    /\ Len(checks) = 2
    /\ checks[1].supports_auto_fix
    /\ ~checks[2].supports_auto_fix
    /\ Len(yielded) = 1
    /\ tasks[yielded[1][1]].check = 1

C24_Duration ==
    /\ [](/\ tasks[1].started_at = None => duration(tasks[1], clock) = 0
          /\ is_in_progress(tasks[1]) =>
                duration(tasks[1], clock) = clock - tasks[1].started_at
          /\ is_complete(tasks[1]) =>
                duration(tasks[1], clock) = tasks[1].ended_at - tasks[1].started_at
          /\ duration(tasks[1], clock) >= 0)
    /\ [][/\ (is_in_progress(tasks[1]) /\ is_in_progress(tasks'[1])) =>
                duration(tasks'[1], clock') >= duration(tasks[1], clock)
          /\ is_complete(tasks[1]) =>
                duration(tasks'[1], clock') = duration(tasks[1], clock)]_vars

C24_Witness ==
    /\ is_complete(tasks[1])
    /\ tasks[1].started_at < tasks[1].ended_at
    /\ tasks[1].ended_at < clock
    /\ pc = "tick"
    /\ duration(tasks[1], clock) = tasks[1].ended_at - tasks[1].started_at

\* the structure of a batch: check, environment, autofix flag and purpose of
\* its tasks, in order
BatchStructure(batch) ==
    [k \in 1..Len(batch) |->
        [check |-> tasks[batch[k]].check,
         environment |-> tasks[batch[k]].environment,
         enable_autofix |-> tasks[batch[k]].enable_autofix,
         purpose |-> tasks[batch[k]].purpose]]

\* the Task ids handed out by the earlier calls of generate_task_batches
EarlierIds == UNION {Range(Flatten(calls[n])) : n \in 1..Len(calls)}

EqualsIgnoreCase(a, b) ==
    /\ Len(a) = Len(b)
    /\ \A i \in 1..Len(a) :
          \/ a[i] = b[i]
          \/ a[i] \in 65..90 /\ b[i] = a[i] + 32
          \/ b[i] \in 65..90 /\ a[i] = b[i] + 32

\* C26: _filter_checks returns, in input order, exactly the checks whose name
\* is, case-insensitively, in the include list when there is one and not in
\* the skip list; a name in both lists is skipped; with no filters every check
\* is returned; with no matching name or an empty input nothing is returned
C26_FilterChecks ==
    pc = "filtered" =>
        LET included(c) == \E i \in 1..Len(include_checks) :
                              EqualsIgnoreCase(c.name, include_checks[i])
            skipped(c) == \E i \in 1..Len(skip_checks) :
                              EqualsIgnoreCase(c.name, skip_checks[i])
            kept(c) == (include_checks # <<>> => included(c)) /\ ~skipped(c)
        IN /\ filtered = SelectSeq(checks, kept)
           /\ (include_checks = <<>> /\ skip_checks = <<>>) => filtered = checks
           /\ \A k \in 1..Len(filtered) : ~skipped(filtered[k])
           /\ checks = <<>> => filtered = <<>>
           /\ (include_checks # <<>> /\ \A k \in 1..Len(checks) : ~included(checks[k]))
                 => filtered = <<>>

C26_Witness ==
    /\ pc = "filtered"
    /\ checks = <<[name |-> <<97>>, supports_auto_fix |-> FALSE],
                  [name |-> <<98>>, supports_auto_fix |-> FALSE]>>
    /\ include_checks = <<<<65>>, <<98>>>>
    /\ skip_checks = <<<<98>>>>
    /\ filtered = <<[name |-> <<97>>, supports_auto_fix |-> FALSE]>>

\* C27: when autofix is requested together with the checks, once orchestrate()
\* has ended every autofix task that ran was followed by a run of the same
\* check in check mode, started after the autofix task ended, and the status
\* returned is the most severe status of the check-mode runs: the outcome of
\* the autofix pass itself is not what is reported
C27_AutofixIsFollowedByRerun ==
    (/\ HasFlag(workflow_options, AUTOFIX)
     /\ HasFlag(workflow_options, CHECK)
     /\ pc \in {"returned", "raised"}) =>
        /\ \A t \in 1..Len(tasks) :
              (tasks[t].enable_autofix /\ tasks[t].started_at # None) =>
                  \E u \in 1..Len(tasks) :
                      /\ ~tasks[u].enable_autofix
                      /\ tasks[u].check = tasks[t].check
                      /\ tasks[u].started_at # None
                      /\ is_complete(tasks[t])
                      /\ tasks[t].ended_at <= tasks[u].started_at
        /\ pc = "returned" =>
              LET reruns == SelectSeq([t \in 1..Len(tasks) |-> t],
                                      LAMBDA t : ~tasks[t].enable_autofix)
              IN ret = get_highest_severity(
                          [k \in 1..Len(reruns) |-> objs[atask[reruns[k]].result].status])

\* C28: for every task the orchestrator runs, starts_now is called once before
\* launch and ends_now once after it, whatever the outcome of launch: the Task
\* guards never fire (no RuntimeError leaves _run_task_without_output), and a
\* task whose launch is over is complete with its duration recorded on its
\* Result
C28_StartsAndEndsExactlyOnce ==
    \A t \in 1..Len(atask) :
        /\ atask[t].exception # "RuntimeError"
        /\ atask[t].state \in {"finished", "failed"} =>
              /\ is_complete(tasks[t])
              /\ tasks[t].started_at <= tasks[t].ended_at
              /\ objs[atask[t].result].duration_seconds # None

\* C29: the in_progress and completed lists are disjoint and free of
\* duplicates; a task is in in_progress from the moment it starts until it is
\* recorded as completed; and after orchestrate() returns normally in_progress
\* is empty and completed holds every planned task exactly once
C29_ListsPartitionTheTasks ==
    /\ Range(in_progress) \cap Range(completed) = {}
    /\ \A i, j \in 1..Len(in_progress) : i # j => in_progress[i] # in_progress[j]
    /\ \A i, j \in 1..Len(completed) : i # j => completed[i] # completed[j]
    /\ \A t \in 1..Len(tasks) :
          (tasks[t].started_at # None /\ t \notin Range(completed))
              <=> t \in Range(in_progress)
    /\ pc = "returned" =>
          /\ in_progress = <<>>
          /\ Len(completed) = Len(Planned)
          /\ Range(completed) = 1..Len(tasks)

\* C30: in a run where every launch eventually returns or raises,
\* orchestrate() eventually finishes, by returning or by raising, in
\* sequential and in parallel mode; by then the wait loop has drained its
\* pending set, and whenever no batch is running, on normal and on exceptional
\* exit alike, the status updater is stopped
C30_OrchestrateTerminates ==
    /\ <>(pc \in {"returned", "raised"})
    /\ [](pc \in {"returned", "raised"} => (pending = {} /\ done = {}))
    /\ [](pc \notin {"seq", "wait"} => updater # "running")

C30_Witness ==
    /\ pc = "returned"
    /\ ~HasFlag(workflow_options, SEQUENTIAL)
    /\ Len(yielded) >= 2
    /\ LaunchRaised
    /\ \A t \in 1..Len(atask) : IsOver(atask[t])
    /\ updater = "none"

====
